---- MODULE Spec2Model ----
(***************************************************************************)
(* TimerScheduler (bhorowitz0/TimerScheduler), mutex variant:              *)
(* src/src/TimerScheduler.hpp lines 94-312.                                *)
(*                                                                         *)
(* The scheduler is a process-wide singleton: a multimap from deadline to  *)
(* timer, a hash map from handle to deadline, a handle hint, one mutex,    *)
(* one condition variable and one worker thread.  Producer threads call    *)
(* addTimer/removeTimer; callbacks run on the worker thread and may call   *)
(* them too.  Every access to the two maps and the hint is made inside a   *)
(* std::lock_guard scope, so each such scope is one atomic action that     *)
(* needs the mutex to be free; what a thread does outside a scope (reading *)
(* the clock, notify_one, running a callback) is a step of its own.        *)
(***************************************************************************)
EXTENDS Integers, Sequences, FiniteSets, TLC

\* ------------------------------------------------------------------ bounds
\* steady_clock is modelled by the integers 0..MaxTime (one unit = one tick).
MaxTime == 2
\* periods passed to addTimer are drawn from 1..MaxPeriod
MaxPeriod == 2
\* number of addTimer calls in one behaviour
MaxAdds == 2
\* number of producer threads (the worker's callbacks are one more caller)
NumProducers == 2
\* width of TimerHandle (int32_t in the source, scaled down)
HandleBits == 3

\* ------------------------------------------------------------- constants
Worker == 0
Producers == 1..NumProducers
Threads == {Worker} \cup Producers
NoThread == -1
NoTimeout == -1
InitialHandleHint == 1

\* spin-lock variant, line 434: mNextAvailableHandle{1}
InitialHandle == 1

\* spin-lock variant, line 514: the wait of 10 s while there is no timer, in clock
\* ticks (longer than any time the clock reaches)
EmptyWait == 10

Periods == 1..MaxPeriod
MinHandle == -(2^(HandleBits - 1))
MaxHandle == 2^(HandleBits - 1) - 1
Handles == MinHandle..MaxHandle

VARIABLES
    now,                            \* std::chrono::steady_clock::now()
    mTimeoutTimeToTimerMap,         \* multimap: sequence of [time, handle, period], in iteration order
    mTimerHandleToTimeoutTimeMap,   \* unordered_map: function handle -> time
    mNextAvailableHandleHint,
    mMutex,                         \* owner of mMutex, or NoThread
    th,                             \* per thread: the addTimer/removeTimer call it is in
    wpc,                            \* the worker's position in timerThreadLoop
    timedOutTimers,                 \* checkForTimeouts' local vector (sequence of [handle, period])
    cbIndex,                        \* position of the callback loop in timedOutTimers
    cbCalled,                       \* the running callback has made its scheduler call
    waitUntil,                      \* the time point the worker's wait was given, or NoTimeout
    \* history variables (not program state)
    numAdds,                        \* addTimer calls started
    issued,                         \* handles assigned by addTimer, in order
    addedAt,                        \* handle -> clock value its addTimer call read, until the timer's first pass ends or it is removed
    removed,                        \* handles whose entry a removeTimer call erased
    collectedAt,                    \* deadlines of timedOutTimers' entries when collected
    invoked,                        \* callbacks invoked in the current pass: [handle, deadline]
    lastCollected,                  \* handle -> the time captured by the last pass that collected the timer
    \* the spin-lock variant of TimerSchedulerImpl (lines 350-521)
    mTimers,                        \* std::multimap: sequence of [time, handle, period] sorted by time
    mNextAvailableHandle,           \* the next handle addTimer assigns
    spinTh,                         \* per producer: the call in progress
    spinPc,                         \* position of the worker thread
    spinNow,                        \* checkForTimeouts' local now
    spinTimedOut,                   \* checkForTimeouts' local timedOutTimers
    nextTimeout,                    \* waitForNextTimeout's local nextTimeout
    spinAdds                        \* addTimer calls started

vars == <<now, mTimeoutTimeToTimerMap, mTimerHandleToTimeoutTimeMap,
          mNextAvailableHandleHint, mMutex, th, wpc, timedOutTimers, cbIndex,
          cbCalled, waitUntil, numAdds, issued, addedAt, removed,
          collectedAt, invoked, lastCollected,
          mTimers, mNextAvailableHandle, spinTh, spinPc, spinNow, spinTimedOut,
          nextTimeout, spinAdds>>

spinVars == <<mTimers, mNextAvailableHandle, spinTh, spinPc, spinNow, spinTimedOut,
              nextTimeout, spinAdds>>

histVars == <<numAdds, issued, addedAt, removed, collectedAt, invoked, lastCollected>>

\* ------------------------------------------------------ sequence helpers
InsertAt(s, i, e) == SubSeq(s, 1, i - 1) \o <<e>> \o SubSeq(s, i, Len(s))

EraseAt(s, i) == SubSeq(s, 1, i - 1) \o SubSeq(s, i + 1, Len(s))

MapHandles(m) == {m[i].handle : i \in DOMAIN m}

\* earliest deadline of the deadline index, NoTimeout when it is empty
MinDeadline(m) == IF Len(m) = 0 THEN NoTimeout ELSE m[1].time

IsSorted(m) == \A i, j \in DOMAIN m : i < j => m[i].time <= m[j].time

\* --------------------------------------------------------- handle allocator
\* ++mNextAvailableHandleHint on a HandleBits-wide two's complement integer
IncHandle(h) == IF h = MaxHandle THEN MinHandle ELSE h + 1

\* the probe's test: mTimerHandleToTimeoutTimeMap.count(h) > 0
InUse(idx, h) == h \in DOMAIN idx

\* the while loop of addTimer; defined when some handle value is not in use
RECURSIVE ProbeHandle(_, _)
ProbeHandle(idx, h) == IF InUse(idx, h) THEN ProbeHandle(idx, IncHandle(h)) ELSE h

AllocHandleNoAdvance(idx, hint) == [handle |-> hint, hint |-> hint]

\* timer.handle and the hint after "Prepare for next use"
AllocHandle(idx, hint) ==
    LET h == ProbeHandle(idx, hint)
    IN  [handle |-> h, hint |-> IncHandle(h)]

\* ------------------------------------------------------- deadline multimap
\* std::multimap::insert puts the new element after every element whose key
\* is not greater than the new key (upper bound of the equal range).
InsertPos(m, t) == Cardinality({i \in DOMAIN m : m[i].time <= t}) + 1

InsertTimer(m, t, timer) ==
    InsertAt(m, InsertPos(m, t),
             [time |-> t, handle |-> timer.handle, period |-> timer.period])

Without(f, S) == [x \in DOMAIN f \ S |-> f[x]]

\* operator[] assignment on the handle index
PutHandle(idx, h, t) ==
    [x \in DOMAIN idx \cup {h} |-> IF x = h THEN t ELSE idx[x]]

\* ------------------------------------------------------------ removeTimer
SetMin(S) == CHOOSE x \in S : \A y \in S : x <= y

MatchesAny(entry, h) == TRUE

\* line 166: iter->second.handle == handle
HandleMatches(entry, h) == entry.handle = h

IsNeverBegin(i) == FALSE

\* line 168: iter == mTimeoutTimeToTimerMap.begin()
IsBegin(i) == i = 1

EraseNothing(m, i) == m

\* line 173: mTimeoutTimeToTimerMap.erase(iter)
EraseEntry(m, i) == EraseAt(m, i)

\* The lock_guard scope of removeTimer (lines 155-178): the index of the entry
\* the scan of the equal range stops at (0 when it erases nothing).
RemoveHit(m, idx, h) ==
    IF ~InUse(idx, h) THEN 0
    ELSE LET hits == {i \in DOMAIN m : m[i].time = idx[h] /\ HandleMatches(m[i], h)}
         IN  IF hits = {} THEN 0 ELSE SetMin(hits)

RemoveResult(m, idx, h) ==
    LET i == RemoveHit(m, idx, h)
    IN  IF i = 0
        THEN [map |-> m, wake |-> FALSE, erased |-> FALSE]
        ELSE [map |-> EraseEntry(m, i), wake |-> IsBegin(i), erased |-> TRUE]

\* -------------------------------------------------------- checkForTimeouts
IsDueEarly(time, t) == time <= t + 1

IsDueStrict(time, t) == time < t

\* line 269: iter->first <= now
IsDue(time, t) == time <= t

\* lines 267-277: the number of entries the loop pushes before it breaks
DueCount(m, t) ==
    LET notDue == {i \in DOMAIN m : ~IsDue(m[i].time, t)}
    IN  IF notDue = {} THEN Len(m) ELSE SetMin(notDue) - 1

EraseDueAndNext(m, k) == SubSeq(m, k + 2, Len(m))

\* lines 278-281: erase(iterFirst, iter), the bulk erase of the k due entries
EraseDue(m, k) == SubSeq(m, k + 1, Len(m))

RearmSame(t, period) == t

\* line 286: now + timer.period
RearmTime(t, period) == t + period

ReinsertNothing(m, tt, timer) == m

\* line 287: mTimeoutTimeToTimerMap.insert(...)
Reinsert(m, tt, timer) == InsertTimer(m, tt, timer)

RearmIndexStale(idx, h, tt) == idx

\* line 288: update the reverse mapping
RearmIndex(idx, h, tt) == PutHandle(idx, h, tt)

\* lines 284-289: re-insert the timed out timers and update the reverse mapping
RECURSIVE Rearm(_, _, _, _)
Rearm(m, idx, timers, t) ==
    IF timers = <<>> THEN [map |-> m, idx |-> idx]
    ELSE LET timer == Head(timers)
             tt == RearmTime(t, timer.period)
         IN  Rearm(Reinsert(m, tt, timer), RearmIndex(idx, timer.handle, tt),
                   Tail(timers), t)

CallbackAtReversed(timers, i) == timers[Len(timers) + 1 - i]

\* lines 293-296: the range-for over timedOutTimers visits them in order
CallbackAt(timers, i) == timers[i]

LockKeptByWorker == Worker

\* line 290: the lock_guard scope ends before the callbacks are called
LockAfterCollect == NoThread

\* ------------------------------------------------------ waitForNextTimeout
WaitTargetLast(m) == IF Len(m) > 0 THEN m[Len(m)].time ELSE NoTimeout

\* lines 302-311: wait_until(begin()->first) or wait() without a timeout
WaitTarget(m) == IF Len(m) > 0 THEN m[1].time ELSE NoTimeout

\* ----------------------------------------------------------------- state
\* a thread's call: its position, its locals (timeoutTime, period, handle,
\* needToWakeThread) and two history fields (t0: the clock value addTimer read,
\* erased: removeTimer's scan erased an entry)
IdleCall == [pc |-> "idle", t0 |-> 0, timeoutTime |-> 0, period |-> 0,
             handle |-> 0, needToWakeThread |-> FALSE, erased |-> FALSE]

\* the spin-lock variant: a producer's call (first: the erased entry was the
\* first entry of mTimers, a history field like erased)
SpinIdleCall == [pc |-> "idle", timeoutTime |-> 0, period |-> 0, handle |-> 0,
                 needToWakeThread |-> FALSE, erased |-> FALSE, first |-> FALSE]

\* lines 430-437: the static members of the spin-lock variant
SpinInit ==
    /\ mTimers = <<>>
    /\ mNextAvailableHandle = InitialHandle
    /\ spinTh = [t \in Producers |-> SpinIdleCall]
    /\ spinPc = "stopped"
    /\ spinNow = 0
    /\ spinTimedOut = <<>>
    /\ nextTimeout = NoTimeout
    /\ spinAdds = 0

TypeOK ==
    /\ now \in 0..MaxTime
    /\ mNextAvailableHandleHint \in Handles
    /\ mMutex \in Threads \cup {NoThread}
    /\ wpc \in {"stopped", "check", "deliver", "callback", "sleep", "waiting"}
    /\ DOMAIN mTimerHandleToTimeoutTimeMap \subseteq Handles
    /\ IsSorted(mTimeoutTimeToTimerMap)
    /\ waitUntil \in {NoTimeout} \cup (0..(MaxTime + MaxPeriod))
    /\ \A t \in Threads : th[t].pc \in {"idle", "addLock", "addSpin", "addNotify", "rmNotify"}

Init ==
    /\ now = 0
    /\ mTimeoutTimeToTimerMap = <<>>
    /\ mTimerHandleToTimeoutTimeMap = <<>>
    /\ mNextAvailableHandleHint = InitialHandleHint
    /\ mMutex = NoThread
    /\ th = [t \in Threads |-> IdleCall]
    /\ wpc = "stopped"
    /\ timedOutTimers = <<>>
    /\ cbIndex = 1
    /\ cbCalled = FALSE
    /\ waitUntil = NoTimeout
    /\ numAdds = 0
    /\ issued = <<>>
    /\ addedAt = <<>>
    /\ removed = {}
    /\ collectedAt = <<>>
    /\ invoked = <<>>
    /\ lastCollected = <<>>
    /\ SpinInit

workerVars == <<wpc, timedOutTimers, cbIndex, waitUntil, collectedAt, invoked>>
mapVars == <<mTimeoutTimeToTimerMap, mTimerHandleToTimeoutTimeMap, mNextAvailableHandleHint>>

\* A producer may call at any time; the worker thread calls from inside a
\* callback (one scheduler call per callback invocation).
CanCall(t) ==
    /\ th[t].pc = "idle"
    /\ t = Worker => (wpc = "callback" /\ ~cbCalled)

LoopExit == "stopped"

\* timerThreadLoop, lines 249-254: while (1); after waitForNextTimeout returns
\* the worker is at checkForTimeouts again
LoopHead == "check"

\* mCondition.notify_one(): wakes the worker when it is blocked in a wait
Notified(flag) == IF flag /\ wpc = "waiting" THEN LoopHead ELSE wpc

\* the clock advances
Tick ==
    /\ now < MaxTime
    /\ now' = now + 1
    /\ UNCHANGED <<spinVars, mapVars, mMutex, th, workerVars, cbCalled, numAdds, issued,
                   addedAt, removed, lastCollected>>

\* TimerScheduler::run(): start the worker thread
Run ==
    /\ wpc = "stopped"
    /\ wpc' = "check"
    /\ UNCHANGED <<spinVars, now, mapVars, mMutex, th, timedOutTimers, cbIndex, cbCalled,
                   waitUntil, histVars>>

\* line 116: steady_clock::now() + period
AddDeadline(t, p) == t + p

NeverAtBegin(pos) == FALSE

\* line 136: iter == mTimeoutTimeToTimerMap.begin()
InsertedAtBegin(pos) == pos = 1

\* addTimer, lines 116-122: compute the timeout before locking
AddStart(t, p) ==
    /\ CanCall(t)
    /\ numAdds < MaxAdds
    /\ th' = [th EXCEPT ![t] = [IdleCall EXCEPT !.pc = "addLock", !.t0 = now,
                                 !.timeoutTime = AddDeadline(now, p), !.period = p]]
    /\ numAdds' = numAdds + 1
    /\ cbCalled' = (cbCalled \/ t = Worker)
    /\ UNCHANGED <<spinVars, now, mapVars, mMutex, workerVars, issued, addedAt, removed,
                   lastCollected>>

\* addTimer, lines 124-140: the lock_guard scope
AddLocked(t) ==
    /\ th[t].pc = "addLock"
    /\ mMutex = NoThread
    /\ \E h \in Handles : ~InUse(mTimerHandleToTimeoutTimeMap, h)
    /\ LET a == AllocHandle(mTimerHandleToTimeoutTimeMap, mNextAvailableHandleHint)
           tt == th[t].timeoutTime
           timer == [handle |-> a.handle, period |-> th[t].period]
           pos == InsertPos(mTimeoutTimeToTimerMap, tt)
       IN  /\ mNextAvailableHandleHint' = a.hint
           /\ mTimerHandleToTimeoutTimeMap' =
                  PutHandle(mTimerHandleToTimeoutTimeMap, a.handle, tt)
           /\ mTimeoutTimeToTimerMap' = InsertTimer(mTimeoutTimeToTimerMap, tt, timer)
           /\ th' = [th EXCEPT ![t].pc = "addNotify", ![t].handle = a.handle,
                                ![t].needToWakeThread = InsertedAtBegin(pos)]
           /\ issued' = Append(issued, a.handle)
           /\ addedAt' = PutHandle(addedAt, a.handle, th[t].t0)
    /\ UNCHANGED <<spinVars, now, mMutex, workerVars, cbCalled, numAdds, removed,
                   lastCollected>>

\* addTimer, lines 142-148: notify if needed, return the handle
AddReturn(t) ==
    /\ th[t].pc = "addNotify"
    /\ wpc' = Notified(th[t].needToWakeThread)
    /\ th' = [th EXCEPT ![t] = IdleCall]
    /\ UNCHANGED <<spinVars, now, mapVars, mMutex, timedOutTimers, cbIndex, cbCalled,
                   waitUntil, histVars>>

\* the handles callers pass to removeTimer: every handle addTimer has assigned
\* so far, and the value the hint holds (in use by no timer when it is probed)
RemoveArgs == {issued[i] : i \in DOMAIN issued} \cup {mNextAvailableHandleHint}

\* removeTimer, lines 153-178: the lock_guard scope
RemoveLocked(t, h) ==
    /\ CanCall(t)
    /\ mMutex = NoThread
    /\ LET r == RemoveResult(mTimeoutTimeToTimerMap, mTimerHandleToTimeoutTimeMap, h)
       IN  /\ mTimeoutTimeToTimerMap' = r.map
           /\ th' = [th EXCEPT ![t] = [IdleCall EXCEPT !.pc = "rmNotify", !.handle = h,
                                        !.needToWakeThread = r.wake,
                                        !.erased = r.erased]]
           /\ removed' = IF r.erased THEN removed \cup {h} ELSE removed
           /\ addedAt' = IF r.erased THEN Without(addedAt, {h}) ELSE addedAt
           /\ lastCollected' =
                  IF r.erased THEN Without(lastCollected, {h}) ELSE lastCollected
    /\ cbCalled' = (cbCalled \/ t = Worker)
    /\ UNCHANGED <<spinVars, now, mTimerHandleToTimeoutTimeMap, mNextAvailableHandleHint,
                   mMutex, workerVars, numAdds, issued>>

\* removeTimer, lines 180-185: notify if needed, return
RemoveReturn(t) ==
    /\ th[t].pc = "rmNotify"
    /\ wpc' = Notified(th[t].needToWakeThread)
    /\ th' = [th EXCEPT ![t] = IdleCall]
    /\ UNCHANGED <<spinVars, now, mapVars, mMutex, timedOutTimers, cbIndex, cbCalled,
                   waitUntil, histVars>>

\* checkForTimeouts, lines 260-290: the lock_guard scope
Collect ==
    /\ wpc = "check"
    /\ mMutex = NoThread
    /\ LET k == DueCount(mTimeoutTimeToTimerMap, now)
           due == SubSeq(mTimeoutTimeToTimerMap, 1, k)
           timers == [i \in 1..k |-> [handle |-> due[i].handle, period |-> due[i].period]]
           rest == EraseDue(mTimeoutTimeToTimerMap, k)
           r == Rearm(rest, mTimerHandleToTimeoutTimeMap, timers, now)
       IN  /\ timedOutTimers' = timers
           /\ collectedAt' = [i \in 1..k |-> due[i].time]
           /\ mTimeoutTimeToTimerMap' = r.map
           /\ mTimerHandleToTimeoutTimeMap' = r.idx
           /\ wpc' = IF k > 0 THEN "deliver" ELSE "sleep"
           /\ lastCollected' =
                  [h \in DOMAIN lastCollected \cup {due[i].handle : i \in 1..k} |->
                      IF \E i \in 1..k : due[i].handle = h THEN now
                      ELSE lastCollected[h]]
    /\ mMutex' = LockAfterCollect
    /\ cbIndex' = 1
    /\ invoked' = <<>>
    /\ UNCHANGED <<spinVars, now, mNextAvailableHandleHint, th, cbCalled, waitUntil,
                   numAdds, issued, addedAt, removed>>

\* the timers of the current pass with the deadlines they were collected at
Collected ==
    [i \in DOMAIN timedOutTimers |->
        [handle |-> timedOutTimers[i].handle, deadline |-> collectedAt[i]]]

\* the handle the running callback was called with
Running == invoked[Len(invoked)].handle

\* checkForTimeouts, lines 293-295: call the next callback
InvokeCallback ==
    /\ wpc = "deliver"
    /\ wpc' = "callback"
    /\ cbCalled' = FALSE
    /\ invoked' = Append(invoked, CallbackAt(Collected, cbIndex))
    /\ UNCHANGED <<spinVars, now, mapVars, mMutex, th, timedOutTimers, cbIndex, waitUntil,
                   numAdds, issued, addedAt, removed, collectedAt, lastCollected>>

\* the callback returns; after the last one checkForTimeouts returns
CallbackReturn ==
    /\ wpc = "callback"
    /\ th[Worker].pc = "idle"
    /\ cbIndex' = cbIndex + 1
    /\ wpc' = IF cbIndex < Len(timedOutTimers) THEN "deliver" ELSE "sleep"
    /\ cbCalled' = FALSE
    /\ UNCHANGED <<spinVars, now, mapVars, mMutex, th, timedOutTimers, waitUntil, histVars>>

\* waitForNextTimeout, lines 301-311: lock, choose the wait, block (the wait
\* releases the mutex atomically)
Sleep ==
    /\ wpc = "sleep"
    /\ mMutex = NoThread
    /\ waitUntil' = WaitTarget(mTimeoutTimeToTimerMap)
    /\ wpc' = "waiting"
    /\ timedOutTimers' = <<>>
    /\ collectedAt' = <<>>
    /\ cbIndex' = 1
    /\ invoked' = <<>>
    /\ addedAt' = Without(addedAt, {timedOutTimers[i].handle : i \in DOMAIN timedOutTimers})
    /\ UNCHANGED <<spinVars, now, mapVars, mMutex, th, cbCalled, numAdds, issued, removed,
                   lastCollected>>

\* A wait returns only after it has locked the mutex again, and
\* waitForNextTimeout then returns and unlocks; the worker is back at
\* checkForTimeouts, whose scope needs the mutex free.
\* wait_until returns because its time point was reached
WakeTimeout ==
    /\ wpc = "waiting"
    /\ waitUntil # NoTimeout
    /\ now >= waitUntil
    /\ wpc' = LoopHead
    /\ UNCHANGED <<spinVars, now, mapVars, mMutex, th, timedOutTimers, cbIndex, cbCalled,
                   waitUntil, histVars>>

\* a condition variable may wake spuriously
WakeSpurious ==
    /\ wpc = "waiting"
    /\ wpc' = LoopHead
    /\ UNCHANGED <<spinVars, now, mapVars, mMutex, th, timedOutTimers, cbIndex, cbCalled,
                   waitUntil, histVars>>

Next ==
    \/ Tick
    \/ Run
    \/ \E t \in Threads, p \in Periods : AddStart(t, p)
    \/ \E t \in Threads : AddLocked(t)
    \/ \E t \in Threads : AddReturn(t)
    \/ \E t \in Threads, h \in RemoveArgs : RemoveLocked(t, h)
    \/ \E t \in Threads : RemoveReturn(t)
    \/ Collect
    \/ InvokeCallback
    \/ CallbackReturn
    \/ Sleep
    \/ WakeTimeout
    \/ WakeSpurious

Spec == Init /\ [][Next]_vars

\* ------------------------------------------------------------- reset()
\* TimerScheduler::reset() is declared (lines 48-51) and defined nowhere in the
\* source; timerThreadLoop has no exit. The two actions below follow the
\* declaration's comment and the specification: the call stops the scheduler
\* and removes all timers; from within a timeout callback it has no effect.
\* The call returns when the worker thread has ended, which it can between two
\* passes and not while it delivers callbacks.
Reset(t) ==
    /\ t \in Producers
    /\ th[t].pc = "idle"
    /\ mMutex = NoThread
    /\ wpc \in {"stopped", "check", "sleep", "waiting"}
    /\ wpc' = "stopped"
    /\ mTimeoutTimeToTimerMap' = <<>>
    /\ mTimerHandleToTimeoutTimeMap' = <<>>
    /\ timedOutTimers' = <<>>
    /\ collectedAt' = <<>>
    /\ cbIndex' = 1
    /\ invoked' = <<>>
    /\ waitUntil' = NoTimeout
    /\ addedAt' = <<>>
    /\ lastCollected' = <<>>
    /\ UNCHANGED <<spinVars, now, mNextAvailableHandleHint, mMutex, th, cbCalled, numAdds,
                   issued, removed>>

ResetInCallback ==
    /\ CanCall(Worker)
    /\ cbCalled' = TRUE
    /\ UNCHANGED <<spinVars, now, mapVars, mMutex, th, workerVars, numAdds, issued,
                   addedAt, removed, lastCollected>>

NextReset == Next \/ (\E t \in Producers : Reset(t)) \/ ResetInCallback

SpecReset == Init /\ [][NextReset]_vars

\* ------------------------------------------- handle values running out
\* the handles n consecutive addTimer calls assign, starting with hint h, when
\* none of them is in use
RECURSIVE HandleRun(_, _)
HandleRun(h, n) == IF n = 0 THEN <<>> ELSE <<h>> \o HandleRun(IncHandle(h), n - 1)

\* The state the scheduler is in after n times h = addTimer(1, cb);
\* removeTimer(h), all at clock value 0 and before run(): the deadline index is
\* empty again, the handle index still holds every handle, the hint has
\* advanced n times.
AfterAddRemovePairs(n) ==
    LET hs == HandleRun(InitialHandleHint, n)
        used == {hs[i] : i \in DOMAIN hs}
    IN  /\ now = 0
        /\ mTimeoutTimeToTimerMap = <<>>
        /\ mTimerHandleToTimeoutTimeMap = [h \in used |-> AddDeadline(0, 1)]
        /\ mNextAvailableHandleHint = IncHandle(hs[n])
        /\ mMutex = NoThread
        /\ th = [t \in Threads |-> IdleCall]
        /\ wpc = "stopped"
        /\ timedOutTimers = <<>>
        /\ cbIndex = 1
        /\ cbCalled = FALSE
        /\ waitUntil = NoTimeout
        /\ numAdds = 0
        /\ issued = hs
        /\ addedAt = <<>>
        /\ removed = used
        /\ collectedAt = <<>>
        /\ invoked = <<>>
        /\ lastCollected = <<>>
        /\ SpinInit

\* the hint has reached the largest handle value
InitWrap == AfterAddRemovePairs(MaxHandle - InitialHandleHint)

SpecWrap == InitWrap /\ [][Next]_vars

\* one handle value has never been assigned
InitExhaust == AfterAddRemovePairs(Cardinality(Handles) - 1)

\* addTimer, lines 125-130, when every handle value is in the handle index:
\* the thread takes the mutex and the while loop increments the hint for ever
AddSpin(t) ==
    /\ \/ th[t].pc = "addLock" /\ mMutex = NoThread
       \/ th[t].pc = "addSpin" /\ mMutex = t
    /\ \A h \in Handles : InUse(mTimerHandleToTimeoutTimeMap, h)
    /\ mMutex' = t
    /\ th' = [th EXCEPT ![t].pc = "addSpin"]
    /\ mNextAvailableHandleHint' = IncHandle(mNextAvailableHandleHint)
    /\ UNCHANGED <<spinVars, now, mTimeoutTimeToTimerMap, mTimerHandleToTimeoutTimeMap,
                   workerVars, cbCalled, histVars>>

NextExhaust == Next \/ \E t \in Threads : AddSpin(t)

SpecExhaust == InitExhaust /\ [][NextExhaust]_vars

\* ------------------------------------------------- the spin-lock variant
\* The second TimerSchedulerImpl of the source (lines 350-521): one multimap
\* mTimers guarded by the spin lock mTimerMapLock, handles from a counter, and
\* a condition variable whose mutex only the worker locks. Each SpinLock scope
\* is one step. The multimap operators (InsertTimer, DueCount, IsDue, IncHandle)
\* are those of the mutex variant, the code being the same. Callbacks take no
\* argument here and are delivered in one step.
mutexVars == <<mTimeoutTimeToTimerMap, mTimerHandleToTimeoutTimeMap,
               mNextAvailableHandleHint, mMutex, th, wpc, timedOutTimers, cbIndex,
               cbCalled, waitUntil, histVars>>

\* mCondVar.notify_one(): wakes the worker when it is blocked in wait_until
SpinNotified(flag) == IF flag /\ spinPc = "waiting" THEN "check" ELSE spinPc

\* TimerSchedulerImpl::start(), line 357
SpinStart ==
    /\ spinPc = "stopped"
    /\ spinPc' = "check"
    /\ UNCHANGED <<now, mutexVars, mTimers, mNextAvailableHandle, spinTh, spinNow,
                   spinTimedOut, nextTimeout, spinAdds>>

\* addTimer, lines 363-366: compute the timeout before taking the spin lock
SpinAddStart(t, p) ==
    /\ spinTh[t].pc = "idle"
    /\ spinAdds < MaxAdds
    /\ spinTh' = [spinTh EXCEPT ![t] = [SpinIdleCall EXCEPT !.pc = "addLock",
                                         !.timeoutTime = AddDeadline(now, p),
                                         !.period = p]]
    /\ spinAdds' = spinAdds + 1
    /\ UNCHANGED <<now, mutexVars, mTimers, mNextAvailableHandle, spinPc, spinNow,
                   spinTimedOut, nextTimeout>>

\* addTimer, lines 368-378: the SpinLock scope, with the notify_one inside it,
\* and the return
SpinAddLocked(t) ==
    /\ spinTh[t].pc = "addLock"
    /\ LET tt == spinTh[t].timeoutTime
           value == [handle |-> mNextAvailableHandle, period |-> spinTh[t].period]
       IN  /\ mNextAvailableHandle' = IncHandle(mNextAvailableHandle)
           /\ mTimers' = InsertTimer(mTimers, tt, value)
           /\ spinPc' = SpinNotified(InsertedAtBegin(InsertPos(mTimers, tt)))
    /\ spinTh' = [spinTh EXCEPT ![t] = SpinIdleCall]
    /\ UNCHANGED <<now, mutexVars, spinNow, spinTimedOut, nextTimeout, spinAdds>>

\* the handles callers pass to removeTimer: those addTimer has assigned and the
\* one it assigns next (registered with no timer)
SpinRemoveArgs == {h \in Handles : InitialHandle <= h /\ h <= mNextAvailableHandle}

\* removeTimer, lines 388-396: the index of the entry the scan erases (0: none)
SpinRemoveHit(m, h) ==
    LET hits == {i \in DOMAIN m : m[i].handle = h}
    IN  IF hits = {} THEN 0 ELSE SetMin(hits)

\* removeTimer, lines 383-392: needToWakeThread starts true and is cleared when
\* the entry found is not the first one
SpinNeedToWake(i) == ~(i # 0 /\ i # 1)

\* removeTimer, lines 383-397: the SpinLock scope
SpinRemoveLocked(t, h) ==
    /\ spinTh[t].pc = "idle"
    /\ LET i == SpinRemoveHit(mTimers, h)
       IN  /\ mTimers' = IF i = 0 THEN mTimers ELSE EraseAt(mTimers, i)
           /\ spinTh' = [spinTh EXCEPT ![t] =
                            [SpinIdleCall EXCEPT !.pc = "rmNotify", !.handle = h,
                                                 !.needToWakeThread = SpinNeedToWake(i),
                                                 !.erased = (i # 0),
                                                 !.first = (i = 1)]]
    /\ UNCHANGED <<now, mutexVars, mNextAvailableHandle, spinPc, spinNow,
                   spinTimedOut, nextTimeout, spinAdds>>

\* removeTimer, lines 399-402: notify if needed, return
SpinRemoveReturn(t) ==
    /\ spinTh[t].pc = "rmNotify"
    /\ spinPc' = SpinNotified(spinTh[t].needToWakeThread)
    /\ spinTh' = [spinTh EXCEPT ![t] = SpinIdleCall]
    /\ UNCHANGED <<now, mutexVars, mTimers, mNextAvailableHandle, spinNow,
                   spinTimedOut, nextTimeout, spinAdds>>

\* checkForTimeouts, line 468: now is read before the spin lock is taken
SpinReadNow ==
    /\ spinPc = "check"
    /\ spinNow' = now
    /\ spinPc' = "collect"
    /\ UNCHANGED <<now, mutexVars, mTimers, mNextAvailableHandle, spinTh,
                   spinTimedOut, nextTimeout, spinAdds>>

\* lines 488-491: re-insert the timed out timers at now + period
RECURSIVE SpinRearm(_, _, _)
SpinRearm(m, timers, t) ==
    IF timers = <<>> THEN m
    ELSE SpinRearm(InsertTimer(m, RearmTime(t, Head(timers).period), Head(timers)),
                   Tail(timers), t)

\* checkForTimeouts, lines 472-492: the SpinLock scope
SpinCollect ==
    /\ spinPc = "collect"
    /\ LET k == DueCount(mTimers, spinNow)
           timers == [i \in 1..k |-> [handle |-> mTimers[i].handle,
                                      period |-> mTimers[i].period]]
           rest == SubSeq(mTimers, k + 1, Len(mTimers))
       IN  /\ spinTimedOut' = timers
           /\ mTimers' = SpinRearm(rest, timers, spinNow)
           /\ spinPc' = IF k > 0 THEN "deliver" ELSE "sleep"
    /\ UNCHANGED <<now, mutexVars, mNextAvailableHandle, spinTh, spinNow,
                   nextTimeout, spinAdds>>

\* checkForTimeouts, lines 495-498: call the callbacks, return
SpinCallbacks ==
    /\ spinPc = "deliver"
    /\ spinTimedOut' = <<>>
    /\ spinPc' = "sleep"
    /\ UNCHANGED <<now, mutexVars, mTimers, mNextAvailableHandle, spinTh, spinNow,
                   nextTimeout, spinAdds>>

\* lines 506-515: the first deadline, or now + 10 s while mTimers is empty
SpinWaitTarget(m, t) == IF Len(m) > 0 THEN m[1].time ELSE t + EmptyWait

\* waitForNextTimeout, lines 503-516: the SpinLock scope reads the wake-up time
SpinReadTarget ==
    /\ spinPc = "sleep"
    /\ nextTimeout' = SpinWaitTarget(mTimers, now)
    /\ spinPc' = "block"
    /\ UNCHANGED <<now, mutexVars, mTimers, mNextAvailableHandle, spinTh, spinNow,
                   spinTimedOut, spinAdds>>

\* waitForNextTimeout, lines 519-520: lock mMutex and block in wait_until
SpinBlock ==
    /\ spinPc = "block"
    /\ spinPc' = "waiting"
    /\ UNCHANGED <<now, mutexVars, mTimers, mNextAvailableHandle, spinTh, spinNow,
                   spinTimedOut, nextTimeout, spinAdds>>

\* wait_until returns because its time point was reached
SpinWakeTimeout ==
    /\ spinPc = "waiting"
    /\ now >= nextTimeout
    /\ spinPc' = "check"
    /\ UNCHANGED <<now, mutexVars, mTimers, mNextAvailableHandle, spinTh, spinNow,
                   spinTimedOut, nextTimeout, spinAdds>>

\* a condition variable may wake spuriously
SpinWakeSpurious ==
    /\ spinPc = "waiting"
    /\ now < nextTimeout
    /\ spinPc' = "check"
    /\ UNCHANGED <<now, mutexVars, mTimers, mNextAvailableHandle, spinTh, spinNow,
                   spinTimedOut, nextTimeout, spinAdds>>

NextSpin ==
    \/ Tick
    \/ SpinStart
    \/ \E t \in Producers, p \in Periods : SpinAddStart(t, p)
    \/ \E t \in Producers : SpinAddLocked(t)
    \/ \E t \in Producers, h \in SpinRemoveArgs : SpinRemoveLocked(t, h)
    \/ \E t \in Producers : SpinRemoveReturn(t)
    \/ SpinReadNow
    \/ SpinCollect
    \/ SpinCallbacks
    \/ SpinReadTarget
    \/ SpinBlock
    \/ SpinWakeTimeout
    \/ SpinWakeSpurious

SpecSpin == Init /\ [][NextSpin]_vars

\* Fairness the scheduling guarantees: the clock advances, the worker thread
\* and every thread inside a call keep running; nobody is obliged to start a
\* call or to call run(), and a spurious wake-up is never guaranteed.
WorkerStep ==
    Collect \/ InvokeCallback \/ CallbackReturn \/ Sleep \/ WakeTimeout

CallStep(t) == AddLocked(t) \/ AddReturn(t) \/ RemoveReturn(t)

FairSpec ==
    /\ Spec
    /\ WF_vars(Tick)
    /\ WF_vars(WorkerStep)
    /\ \A t \in Threads : WF_vars(CallStep(t))

\* ------------------------------------------------------- step predicates
Quiescent == \A t \in Threads : th[t].pc = "idle"

LiveHandles == MapHandles(mTimeoutTimeToTimerMap)

\* thread t executes the locked scope of addTimer / removeTimer in this step
AddStep(t) == th[t].pc = "addLock" /\ th'[t].pc = "addNotify"
RemoveStep(t) == th[t].pc = "idle" /\ th'[t].pc = "rmNotify"

\* the worker executes the locked scope of checkForTimeouts in this step
CollectStep == wpc = "check" /\ wpc' \in {"deliver", "sleep"}

Distinct(s) == \A i, j \in DOMAIN s : i # j => s[i] # s[j]

\* ------------------------------------------------------------------ C1
\* C1: whenever no add/remove call is in flight, the deadline index and the
\* handle index hold the same number of entries.
C1_IndexSizesAgree ==
    Quiescent =>
        Len(mTimeoutTimeToTimerMap) = Cardinality(DOMAIN mTimerHandleToTimeoutTimeMap)

\* ------------------------------------------------------------------ C2
\* C2: a Deliver pass never collects a handle whose entry removeTimer has
\* erased before the pass took the lock, a removed handle has no entry in the
\* deadline index, and a pass holds each handle at most once; so a removed
\* handle is invoked at most once more, by the pass that had collected it.
C2_RemovedNeverCollected ==
    [][ /\ CollectStep =>
              \A i \in DOMAIN timedOutTimers' : timedOutTimers'[i].handle \notin removed
        /\ \A h \in removed' : h \notin MapHandles(mTimeoutTimeToTimerMap')
        /\ Distinct([i \in DOMAIN timedOutTimers' |-> timedOutTimers'[i].handle])
      ]_vars

\* a pass has collected timers at a time when a removed handle's last deadline
\* was already due: the removal came first and the pass left the handle out
C2_Witness ==
    /\ wpc = "deliver"
    /\ \E h \in removed :
          /\ mTimerHandleToTimeoutTimeMap[h] <= collectedAt[1]
          /\ \A i \in DOMAIN timedOutTimers : timedOutTimers[i].handle # h

\* ------------------------------------------------------------------ C3
\* C3: removeTimer(h) for a handle that no registered timer carries (never
\* returned, or already removed) changes neither index nor the hint and does
\* not ask for a notify.
C3_RemoveUnknownIsNoOp ==
    [][ \A t \in Threads :
          (RemoveStep(t) /\ th'[t].handle \notin LiveHandles) =>
              /\ mTimeoutTimeToTimerMap' = mTimeoutTimeToTimerMap
              /\ mTimerHandleToTimeoutTimeMap' = mTimerHandleToTimeoutTimeMap
              /\ mNextAvailableHandleHint' = mNextAvailableHandleHint
              /\ ~th'[t].needToWakeThread
      ]_vars

\* a second removeTimer(h) has run its scan while another timer holds the
\* deadline the handle index still records for h
C3_Witness ==
    \E t \in Threads :
        /\ th[t].pc = "rmNotify"
        /\ ~th[t].erased
        /\ th[t].handle \in removed
        /\ \E i \in DOMAIN mTimeoutTimeToTimerMap :
              mTimeoutTimeToTimerMap[i].time = mTimerHandleToTimeoutTimeMap[th[t].handle]

C5_NotBeforeFirstDeadline ==
    [][ CollectStep =>
          \A i \in DOMAIN timedOutTimers' :
              LET timer == timedOutTimers'[i]
              IN  timer.handle \in DOMAIN addedAt
                      => addedAt[timer.handle] + timer.period <= now
      ]_vars

\* a timer is in its first pass
C5_Witness ==
    /\ wpc = "deliver"
    /\ \E i \in DOMAIN timedOutTimers : timedOutTimers[i].handle \in DOMAIN addedAt

\* ------------------------------------------------------------------ C6
\* the handles MaxAdds calls of addTimer can assign
IssuableHandles == InitialHandleHint..(InitialHandleHint + MaxAdds - 1)

\* the callback of h is running
Firing(h) == wpc = "callback" /\ Running = h

\* h is registered, the worker runs and the clock can reach h's deadline
Pending(h) ==
    /\ wpc # "stopped"
    /\ \E i \in DOMAIN mTimeoutTimeToTimerMap :
          /\ mTimeoutTimeToTimerMap[i].handle = h
          /\ mTimeoutTimeToTimerMap[i].time <= MaxTime

\* C6: the worker blocks without a timeout exactly when it finds the deadline
\* index empty, and under fair scheduling every registered timer whose
\* deadline the clock reaches is collected and its callback invoked, unless it
\* is removed.
C6_NoLostWakeup ==
    /\ [][ (wpc = "sleep" /\ wpc' = "waiting") =>
              ((waitUntil' = NoTimeout) <=> (mTimeoutTimeToTimerMap = <<>>)) ]_vars
    /\ \A h \in IssuableHandles : Pending(h) ~> (Firing(h) \/ h \in removed)

\* an addTimer call has inserted a timer while the worker blocks without a
\* timeout; its notify is still to come
C6_Witness ==
    /\ wpc = "waiting"
    /\ waitUntil = NoTimeout
    /\ \E t \in Producers : th[t].pc = "addNotify" /\ th[t].needToWakeThread

\* ------------------------------------------------------------------ C7
\* C7 as stated: addTimer and removeTimer ask for a notify exactly when the
\* call changes the earliest deadline of the deadline index.
C7_NotifyIffMinChanges ==
    [][ \A t \in Threads :
          (AddStep(t) \/ RemoveStep(t)) =>
              (th'[t].needToWakeThread <=>
                  MinDeadline(mTimeoutTimeToTimerMap') # MinDeadline(mTimeoutTimeToTimerMap))
      ]_vars

\* C7 amended: addTimer asks for a notify exactly when it changes the earliest
\* deadline; removeTimer asks for one exactly when the entry it erases is the
\* first entry of the deadline index, which covers every removal that changes
\* the earliest deadline.
C7_NotifyIffFirstEntry ==
    [][ \A t \in Threads :
          /\ AddStep(t) =>
                (th'[t].needToWakeThread <=>
                    MinDeadline(mTimeoutTimeToTimerMap') # MinDeadline(mTimeoutTimeToTimerMap))
          /\ RemoveStep(t) =>
                /\ th'[t].needToWakeThread <=>
                      /\ mTimeoutTimeToTimerMap # <<>>
                      /\ mTimeoutTimeToTimerMap[1].handle = th'[t].handle
                /\ MinDeadline(mTimeoutTimeToTimerMap') # MinDeadline(mTimeoutTimeToTimerMap)
                      => th'[t].needToWakeThread
      ]_vars

\* removeTimer has erased the first entry while another entry shares its
\* deadline, and asks for a notify
C7_Witness ==
    \E t \in Threads :
        /\ th[t].pc = "rmNotify"
        /\ th[t].erased
        /\ th[t].needToWakeThread
        /\ mTimeoutTimeToTimerMap # <<>>
        /\ mTimeoutTimeToTimerMap[1].time = mTimerHandleToTimeoutTimeMap[th[t].handle]

\* ------------------------------------------------------------------ C8
\* C8: from the end of the collecting scope until the last callback of the
\* pass has returned the worker does not hold the mutex, so the lock a call
\* needs (a producer's, or one made by the callback itself) is never kept by
\* the thread that runs the callbacks.
C8_NoLockDuringCallback ==
    wpc \in {"deliver", "callback"} => mMutex # Worker

\* the running callback has removed its own handle
C8_Witness ==
    /\ wpc = "callback"
    /\ th[Worker].pc = "rmNotify"
    /\ th[Worker].erased
    /\ th[Worker].handle = Running

\* ------------------------------------------------------------------ C9
\* C9: the callbacks of one pass are invoked in non-decreasing order of the
\* deadlines the timers were collected at, in the order collected, each
\* collected timer once, and all of them before the pass ends.
C9_InvokedInDeadlineOrder ==
    /\ \A i, j \in DOMAIN invoked : i < j => invoked[i].deadline <= invoked[j].deadline
    /\ Distinct([i \in DOMAIN invoked |-> invoked[i].handle])
    /\ wpc \in {"deliver", "callback", "sleep"} =>
          /\ Len(invoked) <= Len(timedOutTimers)
          /\ \A i \in DOMAIN invoked : invoked[i] = Collected[i]
    /\ wpc = "sleep" => Len(invoked) = Len(timedOutTimers)

\* a pass has invoked two timers collected at different deadlines
C9_Witness ==
    /\ Len(invoked) >= 2
    /\ invoked[1].deadline < invoked[2].deadline

\* ------------------------------------------------------------------ C10
\* C10: the allocator's probe treats a handle value as in use only while a
\* registered timer carries it; a handle removeTimer has removed is free again.
C10_InUseOnlyWhileLive ==
    \A h \in Handles :
        InUse(mTimerHandleToTimeoutTimeMap, h) => h \in LiveHandles

\* ------------------------------------------------------------------ C11
\* C11: every handle addTimer has assigned is at least 1, also after the hint
\* has been incremented past the largest handle value.
C11_HandlesPositive == \A i \in DOMAIN issued : issued[i] >= 1

EntryCount(h) ==
    Cardinality({i \in DOMAIN mTimeoutTimeToTimerMap :
                    mTimeoutTimeToTimerMap[i].handle = h})

\* C13: whenever the lock is free, every timer that was added and not removed
\* has exactly one entry in the deadline index, and every removed timer none.
C13_OneEntryPerLiveTimer ==
    mMutex = NoThread =>
        \A i \in DOMAIN issued :
            EntryCount(issued[i]) = IF issued[i] \in removed THEN 0 ELSE 1

\* a pass has erased two timers in bulk and re-inserted both
C13_Witness ==
    /\ mMutex = NoThread
    /\ wpc = "deliver"
    /\ Len(timedOutTimers) = 2
    /\ \A i \in DOMAIN timedOutTimers : EntryCount(timedOutTimers[i].handle) = 1

\* ------------------------------------------------------------------ C14
\* C14: whenever the lock is free, the handle index maps the handle of every
\* entry of the deadline index to that entry's deadline, and so a removeTimer
\* of a registered handle erases that handle's entry.
C14_HandleIndexPointsAtEntry ==
    /\ [](mMutex = NoThread =>
            \A i \in DOMAIN mTimeoutTimeToTimerMap :
                /\ InUse(mTimerHandleToTimeoutTimeMap, mTimeoutTimeToTimerMap[i].handle)
                /\ mTimerHandleToTimeoutTimeMap[mTimeoutTimeToTimerMap[i].handle]
                       = mTimeoutTimeToTimerMap[i].time)
    /\ [][\A t \in Threads :
            (RemoveStep(t) /\ th'[t].handle \in LiveHandles) =>
                /\ th'[t].erased
                /\ MapHandles(mTimeoutTimeToTimerMap') = LiveHandles \ {th'[t].handle}
                /\ Len(mTimeoutTimeToTimerMap') = Len(mTimeoutTimeToTimerMap) - 1]_vars

\* a removeTimer has erased the second entry of a group of equal deadlines
\* whose first entry had been re-armed by a pass
C14_Witness ==
    \E t \in Threads :
        /\ th[t].pc = "rmNotify"
        /\ th[t].erased
        /\ ~th[t].needToWakeThread
        /\ mTimeoutTimeToTimerMap # <<>>
        /\ mTimeoutTimeToTimerMap[1].time = mTimerHandleToTimeoutTimeMap[th[t].handle]
        /\ mTimeoutTimeToTimerMap[1].handle \in DOMAIN lastCollected

\* ------------------------------------------------------------------ C15
\* C15: a pass that captured the time now collects exactly the entries whose
\* deadline is at most now, and when it releases the lock no entry of the
\* deadline index has a deadline at most now (every period is positive).
C15_CollectsExactlyDue ==
    [][CollectStep =>
        LET dueAt == {i \in DOMAIN mTimeoutTimeToTimerMap :
                         mTimeoutTimeToTimerMap[i].time <= now}
        IN  /\ Len(timedOutTimers') = Cardinality(dueAt)
            /\ \A i \in dueAt :
                   /\ i \in DOMAIN timedOutTimers'
                   /\ timedOutTimers'[i].handle = mTimeoutTimeToTimerMap[i].handle
            /\ \A j \in DOMAIN mTimeoutTimeToTimerMap' :
                   mTimeoutTimeToTimerMap'[j].time > now]_vars

\* a pass has collected a due timer and left one that is not due
C15_Witness ==
    /\ wpc = "deliver"
    /\ invoked = <<>>
    /\ \E h \in LiveHandles :
           /\ h \notin {timedOutTimers[i].handle : i \in DOMAIN timedOutTimers}
           /\ mTimerHandleToTimeoutTimeMap[h] > now

\* ------------------------------------------------------------------ C16
\* C16: a pass that captured the time now re-inserts each timer it collected
\* exactly once, with deadline now + period and the same handle and period;
\* two consecutive passes that collect the same timer capture times at least
\* the timer's period apart.
C16_RearmedOncePerPeriod ==
    [][CollectStep =>
        \A i \in DOMAIN timedOutTimers' :
            LET timer == timedOutTimers'[i]
                at == {j \in DOMAIN mTimeoutTimeToTimerMap' :
                          mTimeoutTimeToTimerMap'[j].handle = timer.handle}
            IN  /\ timer.handle = mTimeoutTimeToTimerMap[i].handle
                /\ timer.period = mTimeoutTimeToTimerMap[i].period
                /\ Cardinality(at) = 1
                /\ \A j \in at :
                       /\ mTimeoutTimeToTimerMap'[j].time = now + timer.period
                       /\ mTimeoutTimeToTimerMap'[j].period = timer.period
                /\ timer.handle \in DOMAIN lastCollected =>
                       now - lastCollected[timer.handle] >= timer.period]_vars

\* a pass has collected a timer that an earlier pass had collected and re-armed
C16_Witness ==
    /\ wpc = "deliver"
    /\ \E i \in DOMAIN timedOutTimers :
           /\ collectedAt[i] = now
           /\ collectedAt[i] >= 2 * timedOutTimers[i].period
           /\ timedOutTimers[i].handle \notin DOMAIN addedAt

\* ------------------------------------------------------------------ C17
\* C17: in the spin-lock variant an addTimer that inserts a new earliest
\* deadline D makes the worker wake no later than D: the worker is never
\* blocked in wait_until, with a time point still ahead, once the clock has
\* passed the earliest deadline of mTimers.
C17_SpinWakesByEarliest ==
    (spinPc = "waiting" /\ mTimers # <<>>) =>
        (now <= mTimers[1].time \/ nextTimeout <= now)

\* ------------------------------------------------------------------ C18
\* C18: in the spin-lock variant removeTimer decides to notify only when the
\* entry it erased was the first entry of mTimers; not when it erased another
\* entry, and not when the handle was not registered.
C18_SpinRemoveNotifiesOnlyFirst ==
    \A t \in Producers :
        (spinTh[t].pc = "rmNotify" /\ spinTh[t].needToWakeThread) =>
            (spinTh[t].erased /\ spinTh[t].first)

\* ------------------------------------------------------------------ C19
\* a producer has released the lock and not yet made the notify_one call it
\* decided on
NotifyPending ==
    \E t \in Threads : th[t].pc \in {"addNotify", "rmNotify"} /\ th[t].needToWakeThread

\* C19: whenever the worker is blocked in its wait and no producer has a
\* notify_one pending, the worker waits until the earliest deadline of the
\* deadline index, or without a timeout while the index is empty.
C19_WaitTargetIsEarliest ==
    (wpc = "waiting" /\ ~NotifyPending) =>
        IF mTimeoutTimeToTimerMap = <<>> THEN waitUntil = NoTimeout
        ELSE waitUntil = mTimeoutTimeToTimerMap[1].time

\* the worker is blocked while a producer has inserted a later timer behind the
\* one the worker waits for
C19_Witness ==
    /\ wpc = "waiting"
    /\ ~NotifyPending
    /\ Len(mTimeoutTimeToTimerMap) = 2
    /\ mTimeoutTimeToTimerMap[2].time > waitUntil
    /\ \E t \in Producers : th[t].pc = "addNotify"

\* ------------------------------------------------------------------ C20
\* C20: the probe loop of addTimer ends whenever fewer timers are registered
\* than there are handle values: no call is caught in the endless probe then.
C20_ProbeTerminates ==
    \A t \in Threads :
        th[t].pc = "addSpin" => Len(mTimeoutTimeToTimerMap) >= Cardinality(Handles)

\* ------------------------------------------------------------------ C21
\* the worker calls a callback / a callback returns in this step
CallbackStep ==
    \/ wpc = "deliver" /\ wpc' = "callback"
    \/ wpc = "callback" /\ wpc' \in {"deliver", "sleep"}

\* C21: a pass of checkForTimeouts adds and removes no timer: its locked scope
\* leaves the set of handles in the deadline index as it was, leaves every
\* entry with a deadline later than the captured time in place with its
\* deadline, and leaves the handle hint alone; its calling of the callbacks
\* changes neither the deadline index nor the hint.
C21_PassKeepsTimers ==
    /\ [][CollectStep =>
            /\ MapHandles(mTimeoutTimeToTimerMap') = MapHandles(mTimeoutTimeToTimerMap)
            /\ Len(mTimeoutTimeToTimerMap') = Len(mTimeoutTimeToTimerMap)
            /\ \A i \in DOMAIN mTimeoutTimeToTimerMap :
                   mTimeoutTimeToTimerMap[i].time > now =>
                       \E j \in DOMAIN mTimeoutTimeToTimerMap' :
                           mTimeoutTimeToTimerMap'[j] = mTimeoutTimeToTimerMap[i]
            /\ mNextAvailableHandleHint' = mNextAvailableHandleHint]_vars
    /\ [][CallbackStep =>
            UNCHANGED <<mTimeoutTimeToTimerMap, mNextAvailableHandleHint>>]_vars

\* a pass has re-armed one timer and kept another, not yet due, and is about to
\* call the callback; no call is in flight
C21_Witness ==
    /\ wpc = "deliver"
    /\ Quiescent
    /\ Len(timedOutTimers) = 1
    /\ Len(mTimeoutTimeToTimerMap) = 2
    /\ \E i \in DOMAIN mTimeoutTimeToTimerMap :
           /\ mTimeoutTimeToTimerMap[i].handle # timedOutTimers[1].handle
           /\ mTimeoutTimeToTimerMap[i].handle \in DOMAIN addedAt
           /\ mTimeoutTimeToTimerMap[i].time
                  = addedAt[mTimeoutTimeToTimerMap[i].handle] + mTimeoutTimeToTimerMap[i].period

====
